---- MODULE Spec2Model ----
(***************************************************************************)
(* A model of go-wren, the Go binding of the Wren scripting VM.            *)
(*                                                                         *)
(* The package source is src/example_callwren_test.go lines 64-559 (the    *)
(* file wren.go of the repository), the generated trampoline table is the  *)
(* template in src/test/test.go lines 168-219 (cgluer.go).  The Wren VM    *)
(* itself is a C library outside the repository: the model keeps only      *)
(* what it does at the boundary (it asks for bindings, fills slots,        *)
(* invokes the bound entry points and reports a result).                   *)
(***************************************************************************)
EXTENDS Integers, Sequences, FiniteSets, TLC

VARIABLES
    counter,   \* cglue.go: var counter int
    fMap,      \* cglue.go: fMap map[int]func(), index -> installed closure
    vmMap,     \* wren.go: vmMap map[*C.WrenVM]*VM, handle -> {classes, methods}
    bound,     \* per VM: what the VM bound its foreign declarations to
    heap,      \* per VM: the foreign objects in VM-owned storage
    fMapGuard, \* cglue.go: fMapGuard sync.Mutex, the goroutine holding it or 0
    goroutines,\* the goroutines inside a Register... call: where each one is
    value,     \* wren.go: the Value made by vm.Variable, with its methods map
    regLog,    \* history: the successful registrations, in order
    last       \* history: the last operation (inputs, result, effects)

vars == <<counter, fMap, vmMap, bound, heap, fMapGuard, goroutines, value, regLog, last>>

\* What the operations of one goroutine on the registry and the VMs leave alone.
others == <<fMapGuard, goroutines, value>>

(***************************************************************************)
(* Sizes.                                                                  *)
(***************************************************************************)
\* const MAX_REGISTRATIONS = {{len .}}: the number of entry points generated,
\* the argument of "go run cgluer.go N".  The repository generates 128; the
\* model generates 3.
MAX_REGISTRATIONS == 3
\* Number of VM handles NewVM can hand out.
NumVMs == 2
\* Number of foreign objects the VMs may allocate in all.
MaxObjects == 1
\* Number of goroutines that call Register... at the same time.
NumGoroutines == 3

\* The null pointer, (void*)(0) in get_f.
NULL == 0

VMs == 1..NumVMs

(***************************************************************************)
(* Generic map helpers (Go maps as functions over their key set).          *)
(***************************************************************************)
\* A slip: an entry that exists is kept, as if the store were guarded by a
\* lookup.
Put_KeepFirst(m, k, v) ==
    [x \in (DOMAIN m) \cup {k} |-> IF x \in DOMAIN m THEN m[x] ELSE v]

\* m[k] = v on a Go map.
Put(m, k, v) == [x \in (DOMAIN m) \cup {k} |-> IF x = k THEN v ELSE m[x]]
EmptyMap == [x \in {} |-> NULL]

(***************************************************************************)
(* cglue.go: the trampoline table.                                         *)
(***************************************************************************)
\* The address of entry point f<i>; any non-null encoding will do, the model
\* uses i + 1.
FnPtr(i) == i + 1
FnIndex(p) == p - 1

\* static inline void* get_f(int i): f<i> for a declared index, else NULL.
get_f(i) == IF i \in 0..(MAX_REGISTRATIONS - 1) THEN FnPtr(i) ELSE NULL

ErrCapacity == "maximum function registration reached"

(***************************************************************************)
(* Values.  A Wren number is an IEEE double; the model keeps the doubles   *)
(* that are multiples of 1/2 and writes such a double as the integer       *)
(* "number of halves" (2.5 is 5, the integer 3 is 6).                      *)
(***************************************************************************)
\* A slot of the VM's API stack: a tag (WREN_TYPE_*) and the payload.
SlotBool(b)    == [tag |-> "bool",    n |-> 0, s |-> "", b |-> b]
SlotNum(h)     == [tag |-> "num",     n |-> h, s |-> "", b |-> FALSE]
SlotForeign(a) == [tag |-> "foreign", n |-> a, s |-> "", b |-> FALSE]
SlotString(s)  == [tag |-> "string",  n |-> 0, s |-> s,  b |-> FALSE]
SlotList       == [tag |-> "list",    n |-> 0, s |-> "", b |-> FALSE]
SlotNull       == [tag |-> "null",    n |-> 0, s |-> "", b |-> FALSE]
SlotUnknown    == [tag |-> "unknown", n |-> 0, s |-> "", b |-> FALSE]

\* A reflect.Value: its Go type and the payload ("invalid" is the zero Value).
GoBool(b)    == [t |-> "bool",    n |-> 0, s |-> "", b |-> b]
GoFloat64(h) == [t |-> "float64", n |-> h, s |-> "", b |-> FALSE]
GoInt(i)     == [t |-> "int",     n |-> i, s |-> "", b |-> FALSE]
GoString(s)  == [t |-> "string",  n |-> 0, s |-> s,  b |-> FALSE]
GoPtrGod(a)  == [t |-> "*God",    n |-> a, s |-> "", b |-> FALSE]
GoInvalid    == [t |-> "invalid", n |-> 0, s |-> "", b |-> FALSE]

\* The outcome of a step that may panic: the panic message ("" when it did
\* not panic) and the value produced.
Ok(v)      == [panic |-> "", val |-> v]
Panics(m)  == [panic |-> m,  val |-> GoInvalid]

\* Go's conversion of a float64 to int: the fraction is discarded.
TruncToInt(h) == IF h >= 0 THEN h \div 2 ELSE -((-h) \div 2)
\* Go's conversion of an int to float64 (C.double(v.Int())).
IntToDouble(i) == 2 * i

\* reflect.Value.Convert of a float64 to the type `to`.
Convert(h, to) ==
    CASE to = "int"     -> Ok(GoInt(TruncToInt(h)))
      [] to = "float64" -> Ok(GoFloat64(h))
      [] OTHER -> Panics("reflect.Value.Convert: value of type float64 cannot be converted to type "
                         \o to)

\* reflect.Type.Elem: defined for the pointer type only.
IsPtrType(t) == t = "*God"

\* A slip: a string slot is parsed into the declared numeric type.
getFromSlot_Coerce(sv, slot, in) ==
    CASE sv.tag = "bool"    -> Ok(GoBool(sv.b))
      [] sv.tag = "num"     -> IF in # "nil" THEN Convert(sv.n, in) ELSE Ok(GoFloat64(sv.n))
      [] sv.tag = "foreign" ->
            IF in = "nil"
            THEN Panics("can't return foreign value without type information!")
            ELSE IF IsPtrType(in) THEN Ok(GoPtrGod(sv.n))
                 ELSE Panics("reflect: Elem of invalid type " \o in)
      [] sv.tag = "list"    -> Panics("not sure how to get a list value from the slot")
      [] sv.tag = "null"    -> Ok(GoInvalid)
      [] sv.tag = "string"  -> IF in = "int" THEN Ok(GoInt(0)) ELSE Ok(GoString(sv.s))
      [] sv.tag = "unknown" ->
            Panics("received an inaccessible-from-C parameter in slot " \o ToString(slot))

\* func getFromSlot(vm, slot, in *reflect.Type) reflect.Value; sv is the content
\* of the slot, `in` the expected type ("nil" when the caller passes none).
getFromSlot(sv, slot, in) ==
    CASE sv.tag = "bool"    -> Ok(GoBool(sv.b))
      [] sv.tag = "num"     -> IF in # "nil" THEN Convert(sv.n, in) ELSE Ok(GoFloat64(sv.n))
      [] sv.tag = "foreign" ->
            IF in = "nil"
            THEN Panics("can't return foreign value without type information!")
            ELSE IF IsPtrType(in) THEN Ok(GoPtrGod(sv.n))
                 ELSE Panics("reflect: Elem of invalid type " \o in)
      [] sv.tag = "list"    -> Panics("not sure how to get a list value from the slot")
      [] sv.tag = "null"    -> Ok(GoInvalid)
      [] sv.tag = "string"  -> Ok(GoString(sv.s))
      [] sv.tag = "unknown" ->
            Panics("received an inaccessible-from-C parameter in slot " \o ToString(slot))

\* func saveToSlot(vm, slot, v reflect.Value): the slot content written, or
\* the panic of the default branch.
saveToSlot(v) ==
    CASE v.t = "bool"    -> [panic |-> "", val |-> SlotBool(v.b)]
      [] v.t = "float64" -> [panic |-> "", val |-> SlotNum(v.n)]
      [] v.t = "int"     -> [panic |-> "", val |-> SlotNum(IntToDouble(v.n))]
      [] v.t = "string"  -> [panic |-> "", val |-> SlotString(v.s)]
      [] v.t = "invalid" -> [panic |-> "reflect: call of reflect.Value.Type on zero Value",
                             val |-> SlotNull]
      [] OTHER -> [panic |-> "don't know how to save this to a slot: ", val |-> SlotNull]

(***************************************************************************)
(* The host functions and constructors given to the package: the ones of   *)
(* the tests, one whose body fails, and functions with no result, with two *)
(* results, with a pointer result and with a pointer parameter only.       *)
(***************************************************************************)
\* type God struct { msg string }; a format string is kept as its pieces,
\* "%s" being the verb.
GodMsg == <<"Do my bidding, ", "%s", "!">>
God(msg) == [typ |-> "God", msg |-> msg]
ZeroGod == God(<<>>)

\* fmt.Sprintf(format, arg) for one string operand: the first "%s" takes the
\* operand, a later one has none left, an unused operand is reported.
RECURSIVE SprintfFrom(_, _, _, _)
SprintfFrom(format, k, arg, used) ==
    IF k > Len(format)
    THEN IF used THEN "" ELSE "%!(EXTRA string=" \o arg \o ")"
    ELSE IF format[k] = "%s"
         THEN (IF used THEN "%!s(MISSING)" ELSE arg) \o SprintfFrom(format, k + 1, arg, TRUE)
         ELSE format[k] \o SprintfFrom(format, k + 1, arg, used)
Sprintf(format, arg) == SprintfFrom(format, 1, arg, FALSE)

\*   add        func(a, b int) int                { return a + b }
\*   getMessage func(g *God, name string) string  { return fmt.Sprintf(g.msg, name) }
\*   boom       func()                            { panic("boom") }
\*   noop       func(x int)                       {}
\*   swap       func(a, b int) (int, int)         { return b, a }
\*   self       func(g *God) *God                 { return g }
\*   isNil      func(g *God) bool                 { return g == nil }
HostFuncs == {"add", "getMessage", "boom", "noop", "swap", "self", "isNil"}
Ctors == {"NewGod"}

\* reflect.Type.In(i) for i = 1..NumIn, and NumOut.
ParamTypes(f) ==
    CASE f = "add"        -> <<"int", "int">>
      [] f = "getMessage" -> <<"*God", "string">>
      [] f = "boom"       -> <<>>
      [] f = "noop"       -> <<"int">>
      [] f = "swap"       -> <<"int", "int">>
      [] f = "self"       -> <<"*God">>
      [] f = "isNil"      -> <<"*God">>
NumOut(f) ==
    CASE f \in {"boom", "noop"} -> 0
      [] f = "swap"             -> 2
      [] OTHER                  -> 1

\* The body of host function f on arguments of its declared types; hp is the
\* foreign storage its pointer arguments point into.
FuncBody(f, args, hp) ==
    CASE f = "add"        -> [panic |-> "", rets |-> <<GoInt(args[1].n + args[2].n)>>]
      [] f = "getMessage" ->
            [panic |-> "", rets |-> <<GoString(Sprintf(hp[args[1].n].msg, args[2].s))>>]
      [] f = "boom"       -> [panic |-> "boom", rets |-> <<>>]
      [] f = "noop"       -> [panic |-> "", rets |-> <<>>]
      [] f = "swap"       -> [panic |-> "", rets |-> <<args[2], args[1]>>]
      [] f = "self"       -> [panic |-> "", rets |-> <<args[1]>>]
      [] f = "isNil"      -> [panic |-> "", rets |-> <<GoBool(args[1].t = "invalid")>>]

\* The constructor's result, func() interface{} { return &God{...} }, seen
\* through reflect.Indirect.
CtorResult(c) == God(GodMsg)

\* reflect.Value.Call: a zero Value argument and an argument whose type is not
\* the declared one make it panic before the body runs.
reflectCall(f, params, hp) ==
    LET ins == ParamTypes(f)
        zero == {i \in 1..Len(ins) : params[i].t = "invalid"}
        bad  == {i \in 1..Len(ins) : params[i].t # ins[i]}
        firstBad == CHOOSE i \in bad : \A j \in bad : i <= j
    IN  IF zero # {}
        THEN [panic |-> "reflect: Call using zero Value argument", rets |-> <<>>, ran |-> FALSE]
        ELSE IF bad # {}
        THEN [panic |-> "reflect: Call using " \o params[firstBad].t \o " as type "
                        \o ins[firstBad], rets |-> <<>>, ran |-> FALSE]
        ELSE LET r == FuncBody(f, params, hp)
             IN  [panic |-> r.panic, rets |-> r.rets, ran |-> TRUE]

\* The content of API slot k (from 0); a slot past the ones the VM filled is
\* whatever the fiber's stack holds there.
SlotAt(slots, k, junk) == IF k < Len(slots) THEN slots[k + 1] ELSE junk

SetSlot0(slots, v) == [slots EXCEPT ![1] = v]

\* A slip: the receiver slot is never skipped.
Offset_Never(n, slot0) == 0

\* var offset int; if i == 0 && wrenGetSlotType(vm, slot) == WREN_TYPE_UNKNOWN
\* { offset++; slot++ }: the shift of a function of n parameters, from the
\* content of slot 0.
Offset(n, slot0) == IF n > 0 /\ slot0.tag = "unknown" THEN 1 ELSE 0

\* The recover of handleFunction dropped: the panic leaves the dispatcher.
Recovered_Not(panic) == ""

\* defer func() { if r := recover(); r != nil { err = ... } }(): the error
\* handleFunction returns for a panic raised in its body ("" is nil).
Recovered(panic) == panic

\* A slip: the first result is saved whenever there is one.
handleFunctionReturn_FirstOfMany(slots, f, offset, dec, call) ==
    LET bad    == {i \in DOMAIN dec : dec[i].panic # ""}
        saved  == saveToSlot(call.rets[1])
        raised ==
            IF bad # {} THEN dec[CHOOSE i \in bad : \A j \in bad : i <= j].panic
            ELSE IF call.panic # "" THEN call.panic
            ELSE IF Len(call.rets) >= 1 THEN saved.panic
            ELSE ""
        wrote  == bad = {} /\ call.panic = "" /\ Len(call.rets) >= 1 /\ saved.panic = ""
        err    == Recovered(raised)
    IN  [err     |-> err,
         panic   |-> IF err = "" THEN raised ELSE "",
         offset  |-> offset,
         slots   |-> IF wrote THEN SetSlot0(slots, saved.val) ELSE slots,
         invoked |-> IF bad = {} /\ call.ran
                     THEN <<[f |-> f, args |-> [i \in DOMAIN dec |-> dec[i].val]]>>
                     ELSE <<>>]

\* handleFunction after fv.Call: the result is saved to slot 0 when there is
\* exactly one, and the deferred recover turns the first panic raised into
\* the error returned.  dec holds the outcome of getFromSlot per parameter,
\* call the outcome of fv.Call on the decoded values.
handleFunctionReturn(slots, f, offset, dec, call) ==
    LET bad    == {i \in DOMAIN dec : dec[i].panic # ""}
        saved  == saveToSlot(call.rets[1])
        raised ==
            IF bad # {} THEN dec[CHOOSE i \in bad : \A j \in bad : i <= j].panic
            ELSE IF call.panic # "" THEN call.panic
            ELSE IF Len(call.rets) = 1 THEN saved.panic
            ELSE ""
        wrote  == bad = {} /\ call.panic = "" /\ Len(call.rets) = 1 /\ saved.panic = ""
        err    == Recovered(raised)
    IN  [err     |-> err,
         panic   |-> IF err = "" THEN raised ELSE "",
         offset  |-> offset,
         slots   |-> IF wrote THEN SetSlot0(slots, saved.val) ELSE slots,
         invoked |-> IF bad = {} /\ call.ran
                     THEN <<[f |-> f, args |-> [i \in DOMAIN dec |-> dec[i].val]]>>
                     ELSE <<>>]

\* handleFunction from fv.Call(in) on: the decoded values are handed to f.
handleFunctionCall(slots, hp, f, offset, dec) ==
    handleFunctionReturn(slots, f, offset, dec,
                         reflectCall(f, [i \in DOMAIN dec |-> dec[i].val], hp))

\* A slip: the shift is made at every parameter that meets an inaccessible
\* slot, not at parameter 0 only.
ShiftedSlot(slots, k, junk) == IF SlotAt(slots, k, junk).tag = "unknown" THEN k + 1 ELSE k
handleFunctionDecode_ShiftsAgain(slots, hp, f, offset, junk) ==
    handleFunctionCall(slots, hp, f, offset,
        [i \in 1..Len(ParamTypes(f)) |->
            getFromSlot(SlotAt(slots, ShiftedSlot(slots, i - 1 + offset, junk), junk),
                        ShiftedSlot(slots, i - 1 + offset, junk), ParamTypes(f)[i])])

\* The loop of handleFunction: parameter i (from 0) is read from slot
\* i + offset with its declared type.
handleFunctionDecode(slots, hp, f, offset, junk) ==
    handleFunctionCall(slots, hp, f, offset,
        [i \in 1..Len(ParamTypes(f)) |->
            getFromSlot(SlotAt(slots, i - 1 + offset, junk), i - 1 + offset, ParamTypes(f)[i])])

\* func handleFunction(vm *C.WrenVM, f interface{}) (err error).
\* The result: err, the slots afterwards, the invocations of f made, and the
\* panic that left the function (none, with the recover in place).
handleFunction(slots, hp, f, junk) ==
    handleFunctionDecode(slots, hp, f,
                         Offset(Len(ParamTypes(f)), SlotAt(slots, 0, junk)), junk)

\* A slip: the storage is given to the VM but the value is never copied in.
newForeign_NoCopy(slots, hp, x) ==
    [slots |-> SetSlot0(slots, SlotForeign(Len(hp) + 1)), heap |-> Append(hp, ZeroGod)]

\* func newForeign(vm *C.WrenVM, x interface{}): wrenSetSlotNewForeign puts a
\* new foreign object in slot 0, and the value of x is copied into its storage.
newForeign(slots, hp, x) ==
    [slots |-> SetSlot0(slots, SlotForeign(Len(hp) + 1)), heap |-> Append(hp, x)]

(***************************************************************************)
(* The closures RegisterForeignMethod and RegisterForeignClass install,    *)
(* and the generated entry points that run them.                           *)
(***************************************************************************)
MethodClosure(vm, f) == [kind |-> "method", vm |-> vm, f |-> f]
ClassClosure(vm, f)  == [kind |-> "class",  vm |-> vm, f |-> f]

\* A slip: the error of handleFunction is dropped instead of raised.
DropErr(r, hp) ==
    [panic |-> r.panic, err |-> r.err, slots |-> r.slots, heap |-> hp, invoked |-> r.invoked]
RunMethodClosure_Swallow(c, slots, hp, junk) ==
    DropErr(handleFunction(slots, hp, c.f, junk), hp)

\* func() { if err := handleFunction(vm.vm, f); err != nil { panic(err) } }
\* if err := handleFunction(vm.vm, f); err != nil { panic(err) }, on the
\* result r of handleFunction.
PanicIfErr(r, hp) ==
    [panic |-> IF r.err # "" THEN r.err ELSE r.panic, err |-> r.err,
     slots |-> r.slots, heap |-> hp, invoked |-> r.invoked]
RunMethodClosure(c, slots, hp, junk) == PanicIfErr(handleFunction(slots, hp, c.f, junk), hp)

\* func() { newForeign(vm.vm, f()) }
RunClassClosure(c, slots, hp, junk) ==
    LET nf == newForeign(slots, hp, CtorResult(c.f))
    IN  [panic |-> "", err |-> "", slots |-> nf.slots, heap |-> nf.heap,
         invoked |-> <<[f |-> c.f, args |-> <<>>]>>]

RunClosure(c, slots, hp, junk) ==
    IF c.kind = "method" THEN RunMethodClosure(c, slots, hp, junk)
    ELSE RunClassClosure(c, slots, hp, junk)

\* What entry point f<i> leaves behind when closure c returned r: the slots
\* of the invoking VM change only when c worked on that VM.
Ran(c, vm, slots, r) ==
    [panic |-> r.panic, err |-> r.err, slots |-> IF c.vm = vm THEN r.slots ELSE slots,
     heap |-> r.heap, invoked |-> r.invoked, on |-> c.vm]

\* A slip: every entry point runs the closure installed last.
Trampoline_Latest(i, fm, vm, slots, hps, junk) ==
    IF i \notin DOMAIN fm
    THEN [panic |-> "function " \o ToString(i) \o " not registered", err |-> "",
          slots |-> slots, heap |-> hps[vm], invoked |-> <<>>, on |-> vm]
    ELSE Ran(fm[Cardinality(DOMAIN fm) - 1], vm, slots,
             RunClosure(fm[Cardinality(DOMAIN fm) - 1],
                        IF fm[Cardinality(DOMAIN fm) - 1].vm = vm THEN slots ELSE <<junk>>,
                        hps[fm[Cardinality(DOMAIN fm) - 1].vm], junk))

\* //export f<i>: func f<i>(vm unsafe.Pointer) { f := fMap[i]; ...; f() }.
\* The closure works on the VM it captured at registration, c.vm: on the
\* slots the invoking VM filled when that is the invoking VM, and on whatever
\* its idle API stack holds otherwise.
Trampoline(i, fm, vm, slots, hps, junk) ==
    IF i \notin DOMAIN fm
    THEN [panic |-> "function " \o ToString(i) \o " not registered", err |-> "",
          slots |-> slots, heap |-> hps[vm], invoked |-> <<>>, on |-> vm]
    ELSE Ran(fm[i], vm, slots,
             RunClosure(fm[i], IF fm[i].vm = vm THEN slots ELSE <<junk>>, hps[fm[i].vm], junk))

(***************************************************************************)
(* The binding resolver.                                                   *)
(***************************************************************************)
\* The key bindMethod builds in fullName.
FullName(className, isStatic, signature) ==
    (IF isStatic THEN "static " ELSE "") \o className \o "." \o signature

\* A slip: the module of the request is not looked at.
bindMethod_AnyModule(rec, module, className, isStatic, signature) ==
    LET fullName == FullName(className, isStatic, signature)
    IN  IF fullName \in DOMAIN rec.methods THEN rec.methods[fullName] ELSE NULL

\* A slip: the key is looked up in the records of all VMs.
bindMethod_AnyVM(rec, module, className, isStatic, signature) ==
    IF module # "main" THEN NULL
    ELSE LET fullName == FullName(className, isStatic, signature)
             have == {v \in DOMAIN vmMap : fullName \in DOMAIN vmMap[v].methods}
         IN  IF have # {} THEN vmMap[CHOOSE v \in have : TRUE].methods[fullName] ELSE NULL

\* A slip: the "static " prefix is left out of the key.
bindMethod_IgnoreStatic(rec, module, className, isStatic, signature) ==
    IF module # "main" THEN NULL
    ELSE LET fullName == FullName(className, FALSE, signature)
         IN  IF fullName \in DOMAIN rec.methods THEN rec.methods[fullName] ELSE NULL

\* func bindMethod(vm, c_module, c_className, c_isStatic, c_signature)
\* unsafe.Pointer; rec is vmMap[vm].
bindMethod(rec, module, className, isStatic, signature) ==
    IF module # "main" THEN NULL
    ELSE LET fullName == FullName(className, isStatic, signature)
         IN  IF fullName \in DOMAIN rec.methods THEN rec.methods[fullName] ELSE NULL

\* func bindClass(vm, c_module, c_className) C.WrenForeignClassMethods: the
\* allocate pointer, or the panic.
bindClass(rec, module, className) ==
    IF module # "main"
    THEN [panic |-> "tried to bind foreign class from non-main module", allocate |-> NULL]
    ELSE IF className \in DOMAIN rec.classes
    THEN [panic |-> "", allocate |-> rec.classes[className]]
    ELSE [panic |-> "foreign class " \o className \o " not found", allocate |-> NULL]

\* func interpretResultToErr(result C.WrenInterpretResult) error ("" is nil).
interpretResultToErr(result) ==
    CASE result = "WREN_RESULT_SUCCESS"       -> ""
      [] result = "WREN_RESULT_COMPILE_ERROR" -> "compilation error"
      [] result = "WREN_RESULT_RUNTIME_ERROR" -> "runtime error"

(***************************************************************************)
(* What the host and the scripts do: the inputs of the operations.         *)
(***************************************************************************)
\* The registrations the host makes: a name and the function under it.
MethodRegs == {<<"static GoMath.add(_,_)", "add">>, <<"GoMath.add(_,_)", "boom">>,
               <<"God.getMessage(_)", "getMessage">>}
ClassRegs  == {<<"God", "NewGod">>}
Modules     == {"main", "hello"}
\* The foreign classes the scripts declare.
Classes     == {"God"}
\* The number of parameters a Wren signature declares.
Arity(signature) == IF signature = "add(_,_)" THEN 2 ELSE 1
\* The foreign method declarations of the scripts: both methods, static and not.
Decls == {[className |-> "GoMath", isStatic |-> st, signature |-> "add(_,_)"] : st \in BOOLEAN}
         \cup {[className |-> "God", isStatic |-> st, signature |-> "getMessage(_)"] : st \in BOOLEAN}
\* The values a script passes as first argument (2, -1, 2.5, a string, null)
\* and as second argument (3, 1, a string).
ArgValues(i) ==
    IF i = 1 THEN {SlotNum(4), SlotNum(-2), SlotNum(5), SlotString("Damien"), SlotNull}
    ELSE {SlotNum(6), SlotNum(2), SlotString("Damien")}
ArgLists(n) == {a \in [1..n -> ArgValues(1) \cup ArgValues(2)] : \A i \in 1..n : a[i] \in ArgValues(i)}
\* What a read past the filled slots may find.
JunkValues == {SlotUnknown, SlotNum(4)}

\* The record kept of an operation; the fields an operation does not use
\* keep these values.
NoEvent ==
    [op |-> "init", script |-> "", vm |-> 0, name |-> "", f |-> "", module |-> "",
     decl |-> <<>>, ptr |-> NULL, err |-> "", panic |-> "", returned |-> TRUE,
     hfErr |-> "", pre |-> <<>>, post |-> <<>>, invoked |-> <<>>, on |-> 0,
     offset |-> 0, junk |-> SlotNull, args |-> <<>>, ret |-> GoInvalid, result |-> ""]
Event(op, vm) == [NoEvent EXCEPT !.op = op, !.vm = vm]

\* The goroutines that register concurrently; one outside a call is Idle.
Goroutines == 1..NumGoroutines
Idle == [pc |-> "idle", vm |-> 0, kind |-> "", name |-> "", f |-> "", ptr |-> NULL]

\* No Value has been made yet.
NoValue == [vm |-> 0, methods |-> {}]

\* The process at start: nothing registered, no VM, no Value.
Fresh ==
    /\ counter = 0
    /\ fMap = [i \in {} |-> MethodClosure(0, "")]
    /\ vmMap = [v \in {} |-> [classes |-> EmptyMap, methods |-> EmptyMap]]
    /\ bound = [v \in VMs |-> [classes |-> EmptyMap, methods |-> [d \in {} |-> NULL]]]
    /\ heap = [v \in VMs |-> <<>>]
    /\ fMapGuard = 0
    /\ goroutines = [g \in Goroutines |-> Idle]
    /\ value = NoValue
    /\ regLog = <<>>

Init ==
    /\ Fresh
    /\ last = NoEvent

(***************************************************************************)
(* Go maps are not safe for concurrent use.  vmMap and the two maps of a   *)
(* VM's record are read and written with no lock held, so two goroutines   *)
(* that are at such an access at the same time race: the accesses may both *)
(* take effect, a write may be lost, or the runtime detects the race and   *)
(* ends the process ("fatal error: concurrent map writes").  A goroutine   *)
(* that has left registerFunc and has not yet returned from Register...    *)
(* (pc "store") is at the access vmMap[vm.vm].methods[fullName] = ptr.     *)
(***************************************************************************)
\* The process after a fatal error of the runtime: no goroutine runs.
Dead == [g \in Goroutines |-> [Idle EXCEPT !.pc = "fatal"]]
Fatal == \E g \in Goroutines : goroutines[g].pc = "fatal"
FatalEvent(vm, msg) == [Event("fatal", vm) EXCEPT !.panic = msg, !.returned = FALSE]

\* The goroutines other than g that are at the store into the `kind` map of
\* vm's record.
StoringInto(g, vm, kind) ==
    {h \in Goroutines \ {g} : /\ goroutines[h].pc = "store"
                              /\ goroutines[h].vm = vm
                              /\ goroutines[h].kind = kind}
\* The goroutines reading vmMap on their way to the store.
ReadingVmMap == {h \in Goroutines : goroutines[h].pc = "store"}

\* The goroutines in the critical section of registerFunc, at fMap[counter] = f.
WritingFMap == {h \in Goroutines : goroutines[h].pc = "locked"}

\* What an unsynchronised map read can come to: alone, or in a race that the
\* runtime does not detect, it reads the map as it is before or after the
\* write; detected, the runtime ends the process.
ReadOutcomes(racing) == IF racing THEN {"read", "fatal"} ELSE {"read"}

\* The runtime ends the process during an operation on vm.
RaceFatal(vm, msg) ==
    /\ goroutines' = Dead
    /\ last' = FatalEvent(vm, msg)
    /\ UNCHANGED <<counter, fMap, vmMap, bound, heap, regLog, fMapGuard, value>>

\* What an unsynchronised map write can come to: alone it is stored; in a
\* race it is stored, lost, or the runtime ends the process.
WriteOutcomes(racing) == IF racing THEN {"stored", "lost", "fatal"} ELSE {"stored"}

\* func NewVM() *VM: wrenNewVM hands out a fresh handle, the record is made
\* with two empty maps and entered in vmMap (a write of vmMap, which races
\* with a goroutine that reads vmMap for its store).
NewVM ==
    /\ ~Fatal
    /\ Cardinality(DOMAIN vmMap) < NumVMs
    /\ \E outcome \in WriteOutcomes(ReadingVmMap # {}) \ {"lost"} :
          LET vm == Cardinality(DOMAIN vmMap) + 1
          IN  IF outcome = "fatal"
              THEN /\ goroutines' = Dead
                   /\ last' = FatalEvent(vm, "fatal error: concurrent map read and map write")
                   /\ UNCHANGED vmMap
              ELSE /\ vmMap' = Put(vmMap, vm, [classes |-> EmptyMap, methods |-> EmptyMap])
                   /\ last' = Event("NewVM", vm)
                   /\ UNCHANGED goroutines
    /\ UNCHANGED <<counter, fMap, bound, heap, regLog, fMapGuard, value>>

(***************************************************************************)
(* Registration.  RegisterForeignMethod and RegisterForeignClass build the *)
(* closure and call registerFunc, which reads counter for the capacity     *)
(* test before it takes fMapGuard; the store into fMap, get_f and the      *)
(* increment run with the mutex held, which the deferred Unlock releases   *)
(* on return; the caller then stores the pointer in the record of its VM,  *)
(* with no lock held.  A goroutine takes these steps in order (its pc is   *)
(* where it is), and what other goroutines do falls between them.          *)
(***************************************************************************)
\* if (counter+1) >= MAX_REGISTRATIONS: the test of registerFunc on the
\* value of counter the goroutine reads.
registerFuncFull(cnt) == (cnt + 1) >= MAX_REGISTRATIONS

\* A plausible slip: the counter is not advanced after the installation.
registerFuncLocked_NoIncrement(cnt, fm, f) ==
    [ptr |-> get_f(cnt), counter |-> cnt, fMap |-> Put(fm, cnt, f)]

\* fMap[counter] = f; ptr := C.get_f(C.int(counter)); counter++, with the
\* mutex held.
registerFuncLocked(cnt, fm, f) ==
    [ptr |-> get_f(cnt), counter |-> cnt + 1, fMap |-> Put(fm, cnt, f)]

At(g, pc) == goroutines[g].pc = pc
Goto(g, pc) == [goroutines EXCEPT ![g].pc = pc]

\* Goroutine g enters vm.RegisterForeignMethod(name, f) (kind "method") or
\* vm.RegisterForeignClass(name, f) (kind "class"): the closure is built and
\* registerFunc is called.
GoRegister(g, vm, kind, name, f) ==
    /\ At(g, "idle")
    /\ vm \in DOMAIN vmMap
    /\ goroutines' = [goroutines EXCEPT
                        ![g] = [pc |-> "check", vm |-> vm, kind |-> kind, name |-> name,
                                f |-> f, ptr |-> NULL]]
    /\ UNCHANGED <<counter, fMap, vmMap, bound, heap, fMapGuard, value, regLog, last>>

\* func (vm *VM) RegisterForeignMethod(fullName string, f interface{}) error,
\* entered by goroutine g; GoCheck .. GoStore are the rest of the call.
RegisterForeignMethod(g, vm, fullName, f) == GoRegister(g, vm, "method", fullName, f)

\* func (vm *VM) RegisterForeignClass(className string, f func() interface{}) error,
\* entered by goroutine g; GoCheck .. GoStore are the rest of the call.
RegisterForeignClass(g, vm, className, f) == GoRegister(g, vm, "class", className, f)

\* The closure goroutine g is registering.
ClosureOf(g) ==
    IF goroutines[g].kind = "method"
    THEN MethodClosure(goroutines[g].vm, goroutines[g].f)
    ELSE ClassClosure(goroutines[g].vm, goroutines[g].f)

\* A slip: the closure is installed before the capacity is looked at.
GoCheck_InstallsFirst(g) ==
    /\ At(g, "check")
    /\ IF registerFuncFull(counter)
       THEN /\ goroutines' = [goroutines EXCEPT ![g] = Idle]
            /\ fMap' = Put(fMap, counter, ClosureOf(g))
            /\ last' = [Event(IF goroutines[g].kind = "method" THEN "RegisterForeignMethod"
                              ELSE "RegisterForeignClass", goroutines[g].vm) EXCEPT
                          !.name = goroutines[g].name, !.f = goroutines[g].f,
                          !.err = ErrCapacity]
       ELSE /\ goroutines' = Goto(g, "lock")
            /\ fMap' = fMap
            /\ last' = last
    /\ UNCHANGED <<counter, vmMap, bound, heap, fMapGuard, value, regLog>>

\* registerFunc, the capacity test, no lock held: on failure the error goes
\* back through Register..., which returns it.  The read of counter races
\* with counter++ of the goroutine in the critical section; it yields the
\* value before or after the increment, which is this step taken before or
\* after that goroutine's GoInstall.
GoCheck(g) ==
    /\ At(g, "check")
    /\ IF registerFuncFull(counter)
       THEN /\ goroutines' = [goroutines EXCEPT ![g] = Idle]
            /\ last' = [Event(IF goroutines[g].kind = "method" THEN "RegisterForeignMethod"
                              ELSE "RegisterForeignClass", goroutines[g].vm) EXCEPT
                          !.name = goroutines[g].name, !.f = goroutines[g].f,
                          !.err = ErrCapacity]
       ELSE /\ goroutines' = Goto(g, "lock")
            /\ last' = last
    /\ UNCHANGED <<counter, fMap, vmMap, bound, heap, fMapGuard, value, regLog>>

\* fMapGuard.Lock()
GoLock(g) ==
    /\ At(g, "lock")
    /\ fMapGuard = 0
    /\ fMapGuard' = g
    /\ goroutines' = Goto(g, "locked")
    /\ UNCHANGED <<counter, fMap, vmMap, bound, heap, value, regLog, last>>

\* The body of registerFunc under the mutex.
GoInstall(g) ==
    /\ At(g, "locked")
    /\ LET r == registerFuncLocked(counter, fMap, ClosureOf(g))
       IN  /\ counter' = r.counter
           /\ fMap' = r.fMap
           /\ goroutines' = [goroutines EXCEPT ![g].pc = "unlock", ![g].ptr = r.ptr]
    /\ UNCHANGED <<vmMap, bound, heap, fMapGuard, value, regLog, last>>

\* defer fMapGuard.Unlock(), run as registerFunc returns ptr, nil.
GoUnlock(g) ==
    /\ At(g, "unlock")
    /\ fMapGuard' = 0
    /\ goroutines' = Goto(g, "store")
    /\ UNCHANGED <<counter, fMap, vmMap, bound, heap, value, regLog, last>>

\* A slip: a successful registration also patches the declarations the VM has
\* bound under that name, as if binding were resolved again.
GoStore_Rebinds(g) ==
    /\ At(g, "store")
    /\ LET t == goroutines[g]
       IN  /\ vmMap' = IF t.kind = "method"
                       THEN [vmMap EXCEPT ![t.vm].methods = Put(@, t.name, t.ptr)]
                       ELSE [vmMap EXCEPT ![t.vm].classes = Put(@, t.name, t.ptr)]
           /\ bound' = IF t.kind # "method" THEN bound
                       ELSE [bound EXCEPT ![t.vm].methods =
                               [d \in DOMAIN @ |->
                                  IF FullName(d.className, d.isStatic, d.signature) = t.name
                                  THEN t.ptr ELSE @[d]]]
           /\ regLog' = Append(regLog, [vm |-> t.vm, kind |-> t.kind,
                                        name |-> t.name, ptr |-> t.ptr])
           /\ last' = [Event(IF t.kind = "method" THEN "RegisterForeignMethod"
                             ELSE "RegisterForeignClass", t.vm) EXCEPT
                         !.name = t.name, !.f = t.f, !.ptr = t.ptr]
           /\ goroutines' = [goroutines EXCEPT ![g] = Idle]
    /\ UNCHANGED <<counter, fMap, heap, fMapGuard, value>>

\* vmMap[vm.vm].methods[fullName] = ptr (or classes[className] = ptr);
\* return nil.  No lock is held: with another goroutine at the store into
\* the same map the write races, and Register... returns nil whether or not
\* its entry is in the map afterwards.
GoStore(g) ==
    /\ At(g, "store")
    /\ \E outcome \in WriteOutcomes(StoringInto(g, goroutines[g].vm, goroutines[g].kind) # {}) :
          LET t == goroutines[g]
          IN  IF outcome = "fatal"
              THEN /\ goroutines' = Dead
                   /\ last' = FatalEvent(t.vm, "fatal error: concurrent map writes")
                   /\ UNCHANGED <<vmMap, regLog>>
              ELSE /\ vmMap' = IF outcome = "lost" THEN vmMap
                               ELSE IF t.kind = "method"
                               THEN [vmMap EXCEPT ![t.vm].methods = Put(@, t.name, t.ptr)]
                               ELSE [vmMap EXCEPT ![t.vm].classes = Put(@, t.name, t.ptr)]
                   /\ regLog' = Append(regLog, [vm |-> t.vm, kind |-> t.kind,
                                                name |-> t.name, ptr |-> t.ptr])
                   /\ last' = [Event(IF t.kind = "method" THEN "RegisterForeignMethod"
                                     ELSE "RegisterForeignClass", t.vm) EXCEPT
                                 !.name = t.name, !.f = t.f, !.ptr = t.ptr]
                   /\ goroutines' = [goroutines EXCEPT ![g] = Idle]
    /\ UNCHANGED <<counter, fMap, bound, heap, fMapGuard, value>>

(***************************************************************************)
(* func (vm *VM) Interpret(source string) error.  Interpret hands the      *)
(* source to wrenInterpret as module "main" and converts the result; what  *)
(* the VM does in between depends on the script.  Each action below is     *)
(* Interpret on a script that does one thing; top-level classes stay       *)
(* defined in the VM from one Interpret to the next, so a script can use   *)
(* what an earlier one declared.  A panic raised in a callback unwinds     *)
(* through the VM to the caller of Interpret, and Interpret does not       *)
(* return.                                                                 *)
(***************************************************************************)
\* Interpret, given the VM's result or the panic that crossed it.
Interpret(vm, result, panic) ==
    [Event("Interpret", vm) EXCEPT
       !.panic = panic,
       !.returned = (panic = ""),
       !.err = IF panic = "" THEN interpretResultToErr(result) ELSE ""]

\* A script without foreign members: it runs, fails to compile or fails at
\* run time on its own.
InterpretPlain(vm, result) ==
    /\ ~Fatal
    /\ vm \in DOMAIN vmMap
    /\ last' = [Interpret(vm, result, "") EXCEPT !.script = "plain"]
    /\ UNCHANGED <<counter, fMap, vmMap, bound, heap, regLog, others>>

\* A script of module `module` (main itself, or a module main imports) that
\* declares foreign method d: the VM calls bindMethod; a null answer aborts
\* the fiber with a runtime error, a pointer is stored in the class's method
\* table.  bindMethod reads the methods map of the VM's record with no lock
\* held, which races with a goroutine at its store into that map.
InterpretDeclareMethod(vm, module, d) ==
    /\ ~Fatal
    /\ vm \in DOMAIN vmMap
    /\ \E outcome \in ReadOutcomes(module = "main" /\ StoringInto(0, vm, "method") # {}) :
          IF outcome = "fatal"
          THEN RaceFatal(vm, "fatal error: concurrent map read and map write")
          ELSE LET p == bindMethod(vmMap[vm], module, d.className, d.isStatic, d.signature)
                   result == IF p = NULL THEN "WREN_RESULT_RUNTIME_ERROR"
                             ELSE "WREN_RESULT_SUCCESS"
               IN  /\ bound' = IF p = NULL THEN bound
                               ELSE [bound EXCEPT ![vm].methods = Put(@, d, p)]
                   /\ last' = [Interpret(vm, result, "") EXCEPT
                                 !.script = "bindMethod", !.module = module, !.ptr = p,
                                 !.name = FullName(d.className, d.isStatic, d.signature),
                                 !.decl = <<d.className, d.isStatic, d.signature>>]
                   /\ UNCHANGED <<counter, fMap, vmMap, heap, regLog, others>>

\* A script that declares a foreign class: the VM calls bindClass and keeps
\* the allocate pointer.  bindClass reads the classes map of the VM's record
\* with no lock held.
InterpretDeclareClass(vm, module, className) ==
    /\ ~Fatal
    /\ vm \in DOMAIN vmMap
    /\ \E outcome \in ReadOutcomes(module = "main" /\ StoringInto(0, vm, "class") # {}) :
          IF outcome = "fatal"
          THEN RaceFatal(vm, "fatal error: concurrent map read and map write")
          ELSE LET r == bindClass(vmMap[vm], module, className)
               IN  /\ bound' = IF r.panic # "" THEN bound
                               ELSE [bound EXCEPT ![vm].classes = Put(@, className, r.allocate)]
                   /\ last' = [Interpret(vm, "WREN_RESULT_SUCCESS", r.panic) EXCEPT
                                 !.script = "bindClass", !.module = module,
                                 !.name = className, !.ptr = r.allocate]
                   /\ UNCHANGED <<counter, fMap, vmMap, heap, regLog, others>>

\* Interpret while the VM has invoked entry point ptr on the given slots and
\* r is what the entry point did: the foreign storage it worked on changes,
\* and its panic, if any, is the way Interpret ends.
InterpretInvoked(vm, script, name, ptr, slots, r) ==
    /\ heap' = [heap EXCEPT ![r.on] = r.heap]
    /\ last' = [Interpret(vm, "WREN_RESULT_SUCCESS", r.panic) EXCEPT
                  !.script = script, !.name = name,
                  !.ptr = ptr, !.hfErr = r.err, !.pre = slots, !.post = r.slots,
                  !.invoked = r.invoked, !.on = r.on,
                  !.f = IF FnIndex(ptr) \in DOMAIN fMap THEN fMap[FnIndex(ptr)].f ELSE ""]
    /\ UNCHANGED <<counter, fMap, vmMap, bound, regLog, others>>

\* Interpret on a script that makes the VM invoke the entry point ptr.  The
\* entry point reads fMap with no lock held, which races with a goroutine in
\* the critical section of registerFunc.
InterpretInvoke(vm, script, name, ptr, slots, junk) ==
    \E outcome \in ReadOutcomes(WritingFMap # {}) :
       IF outcome = "fatal"
       THEN RaceFatal(vm, "fatal error: concurrent map read and map write")
       ELSE InterpretInvoked(vm, script, name, ptr, slots,
                             Trampoline(FnIndex(ptr), fMap, vm, slots, heap, junk))

\* A script that calls a bound foreign method: the VM puts the receiver in
\* slot 0 and the arguments behind it and invokes the entry point it bound.
\* The receiver of a static method is the class, which the slot API cannot
\* represent; an instance is a foreign object or not.
InterpretCall(vm, d, recv, args, junk) ==
    /\ ~Fatal
    /\ vm \in DOMAIN vmMap
    /\ d \in DOMAIN bound[vm].methods
    /\ InterpretInvoke(vm, "call", FullName(d.className, d.isStatic, d.signature),
                       bound[vm].methods[d], <<recv>> \o args, junk)

RECURSIVE SumLen(_, _)
SumLen(hps, v) == IF v = 0 THEN 0 ELSE Len(hps[v]) + SumLen(hps, v - 1)
NumObjects == SumLen(heap, NumVMs)

\* A script that constructs an instance of a bound foreign class: the VM
\* invokes the allocate entry point with the class in slot 0.
InterpretConstruct(vm, className, junk) ==
    /\ ~Fatal
    /\ vm \in DOMAIN vmMap
    /\ className \in DOMAIN bound[vm].classes
    /\ NumObjects < MaxObjects
    /\ InterpretInvoke(vm, "construct", className, bound[vm].classes[className],
                       <<SlotUnknown>>, junk)

Receivers(vm, d) ==
    IF d.isStatic THEN {SlotUnknown}
    ELSE {SlotUnknown} \cup {SlotForeign(a) : a \in 1..Len(heap[vm])}

\* The junk a call can meet: none unless the entry point bound to d reads a
\* slot the VM did not fill.
Junk(vm, d, slots) ==
    IF /\ d \in DOMAIN bound[vm].methods
       /\ FnIndex(bound[vm].methods[d]) \in DOMAIN fMap
       /\ LET c == fMap[FnIndex(bound[vm].methods[d])]
          IN  \/ c.vm # vm
              \/ /\ c.kind = "method"
                 /\ Len(ParamTypes(c.f)) + Offset(Len(ParamTypes(c.f)), slots[1]) > Len(slots)
    THEN JunkValues ELSE {SlotNull}

Results == {"WREN_RESULT_SUCCESS", "WREN_RESULT_COMPILE_ERROR", "WREN_RESULT_RUNTIME_ERROR"}

\* The host: one goroutine sets up the VMs and runs the scripts, call after
\* call; another one, SetupGoroutine, registers the foreign members
\* meanwhile, step by step.  Registrations by several goroutines at once are
\* NextConcurrent.
SetupGoroutine == 1

Next ==
    \/ NewVM
    \/ \E vm \in VMs, reg \in MethodRegs :
          RegisterForeignMethod(SetupGoroutine, vm, reg[1], reg[2])
    \/ \E vm \in VMs, reg \in ClassRegs :
          RegisterForeignClass(SetupGoroutine, vm, reg[1], reg[2])
    \/ GoCheck(SetupGoroutine)
    \/ GoLock(SetupGoroutine)
    \/ GoInstall(SetupGoroutine)
    \/ GoUnlock(SetupGoroutine)
    \/ GoStore(SetupGoroutine)
    \/ \E vm \in VMs, result \in Results : InterpretPlain(vm, result)
    \/ \E vm \in VMs, module \in Modules, d \in Decls : InterpretDeclareMethod(vm, module, d)
    \/ \E vm \in VMs, module \in Modules, className \in Classes :
          InterpretDeclareClass(vm, module, className)
    \/ \E vm \in VMs, d \in Decls :
          \E recv \in Receivers(vm, d), args \in ArgLists(Arity(d.signature)) :
             \E junk \in Junk(vm, d, <<recv>> \o args) : InterpretCall(vm, d, recv, args, junk)
    \/ \E vm \in VMs, className \in Classes : InterpretConstruct(vm, className, SlotNull)

Spec == Init /\ [][Next]_vars

(***************************************************************************)
(* Registration by several goroutines at once.                             *)
(***************************************************************************)
\* What the goroutines register, each its own member again and again: the
\* members of the package's tests, on the VMs in turn.
Jobs == <<[kind |-> "method", name |-> "static GoMath.add(_,_)", f |-> "add"],
          [kind |-> "class",  name |-> "God",                    f |-> "NewGod"],
          [kind |-> "method", name |-> "God.getMessage(_)",      f |-> "getMessage"]>>
JobOf(g) == Jobs[((g - 1) % Len(Jobs)) + 1]
VMOf(g) == ((g - 1) % NumVMs) + 1

NextConcurrent ==
    \/ NewVM
    \/ \E g \in Goroutines :
          IF JobOf(g).kind = "method"
          THEN RegisterForeignMethod(g, VMOf(g), JobOf(g).name, JobOf(g).f)
          ELSE RegisterForeignClass(g, VMOf(g), JobOf(g).name, JobOf(g).f)
    \/ \E g \in Goroutines : GoCheck(g)
    \/ \E g \in Goroutines : GoLock(g)
    \/ \E g \in Goroutines : GoInstall(g)
    \/ \E g \in Goroutines : GoUnlock(g)
    \/ \E g \in Goroutines : GoStore(g)

SpecConcurrent == Init /\ [][NextConcurrent]_vars

(***************************************************************************)
(* handleFunction as a function of what it is given: the host function,    *)
(* the slots the VM filled (receiver first), the foreign storage, and what *)
(* lies behind the filled slots.                                           *)
(***************************************************************************)
\* The foreign storage during a dispatch: one God made by the constructor.
DispatchHeap == <<CtorResult("NewGod")>>
\* What a slot may hold: an object the slot API cannot represent (a class,
\* an instance of a Wren class), a foreign object, a number, a string, null.
DispatchValues == {SlotUnknown, SlotForeign(1), SlotNum(4), SlotString("Damien"), SlotNull}
\* The receiver and up to MaxArgs arguments.
MaxArgs == 2
DispatchSlots == UNION {[1..n -> DispatchValues] : n \in 1..(MaxArgs + 1)}
DispatchInputs ==
    {[Event("input", 0) EXCEPT !.f = f, !.pre = slots, !.junk = junk] :
        f \in HostFuncs, slots \in DispatchSlots, junk \in JunkValues}

InitDispatch ==
    /\ Fresh
    /\ last \in DispatchInputs

\* The record of a dispatch that returned r.
DispatchEvent(in, r) ==
    [in EXCEPT !.op = "handleFunction", !.post = r.slots, !.hfErr = r.err,
               !.panic = r.panic, !.invoked = r.invoked, !.offset = r.offset]

\* handleFunction(vm, f) with the slots of last.pre.
Dispatch ==
    /\ last.op = "input"
    /\ last' = DispatchEvent(last, handleFunction(last.pre, DispatchHeap, last.f, last.junk))
    /\ UNCHANGED <<counter, fMap, vmMap, bound, heap, regLog, others>>

NextDispatch == Dispatch

SpecDispatch == InitDispatch /\ [][NextDispatch]_vars

(***************************************************************************)
(* Calling Wren from the host.  The host interprets a program that defines *)
(* a class, takes a handle to the class with Variable and calls its        *)
(* methods with Value.Call.  The program is the one of TestCallWren with   *)
(* one more method that returns nothing:                                   *)
(*    class WrenMath {                                                     *)
(*      static do_add(a, b) { return a + b }                               *)
(*      static nothing() {}                                                *)
(*    }                                                                    *)
(***************************************************************************)
\* The longest parameter list the host passes to Value.Call.
MaxParams == 2

\* The parameters the host passes: the ints 2 and 3, the float 2.5, a string
\* and nil (reflect.ValueOf(nil) is the zero Value).
CallParams == {GoInt(2), GoInt(3), GoFloat64(5), GoString("x"), GoInvalid}
CallParamLists == UNION {[1..n -> CallParams] : n \in 0..MaxParams}
\* The signatures the host calls; the class has no method "missing()".
CallSignatures == {"do_add(_,_)", "nothing()", "missing()"}
\* The parameter lists the host passes with a signature: of any length for
\* do_add, none for the two without parameters.
CallParamListsOf(signature) ==
    IF signature = "do_add(_,_)" THEN CallParamLists ELSE {<<>>}

\* Wren's a + b: numbers add, strings concatenate, anything else aborts the
\* fiber; after an abort the API stack holds nothing the host may rely on.
WrenAdd(a, b, junk) ==
    IF a.tag = "num" /\ b.tag = "num"
    THEN [result |-> "WREN_RESULT_SUCCESS", slot0 |-> SlotNum(a.n + b.n)]
    ELSE IF a.tag = "string" /\ b.tag = "string"
    THEN [result |-> "WREN_RESULT_SUCCESS", slot0 |-> SlotString(a.s \o b.s)]
    ELSE [result |-> "WREN_RESULT_RUNTIME_ERROR", slot0 |-> junk]

\* wrenCall on the handle of WrenMath: the VM's result and what it leaves in
\* slot 0.  An argument the host did not set is whatever the stack held.
wrenCall(signature, slots, junk) ==
    CASE signature = "do_add(_,_)" -> WrenAdd(SlotAt(slots, 1, junk), SlotAt(slots, 2, junk), junk)
      [] signature = "nothing()"   -> [result |-> "WREN_RESULT_SUCCESS", slot0 |-> SlotNull]
      [] OTHER                     -> [result |-> "WREN_RESULT_RUNTIME_ERROR", slot0 |-> junk]

\* A slip: slot 0 is decoded before the VM's result is looked at.
CallReturn_ReadsFirst(slots, vmres) ==
    [pre      |-> slots,
     post     |-> SetSlot0(slots, vmres.slot0),
     result   |-> vmres.result,
     err      |-> IF getFromSlot(vmres.slot0, 0, "nil").panic # "" THEN ""
                  ELSE interpretResultToErr(vmres.result),
     panic    |-> getFromSlot(vmres.slot0, 0, "nil").panic,
     ret      |-> IF interpretResultToErr(vmres.result) # "" THEN GoInvalid
                  ELSE getFromSlot(vmres.slot0, 0, "nil").val]

\* Value.Call from the return of wrenCall on: an error result is returned
\* with a nil value; otherwise slot 0 is decoded without a type, and the
\* zero Value of a null slot is returned as nil.
CallReturn(slots, vmres) ==
    [pre      |-> slots,
     post     |-> SetSlot0(slots, vmres.slot0),
     result   |-> vmres.result,
     err      |-> interpretResultToErr(vmres.result),
     panic    |-> IF interpretResultToErr(vmres.result) # "" THEN ""
                  ELSE getFromSlot(vmres.slot0, 0, "nil").panic,
     ret      |-> IF interpretResultToErr(vmres.result) # "" THEN GoInvalid
                  ELSE getFromSlot(vmres.slot0, 0, "nil").val]

\* The slots Value.Call has set when it stops saving: the receiver handle in
\* slot 0 (a class, which the slot API cannot represent) and the parameters
\* saved before the first one that saveToSlot rejected.
CallSlots(saved, n) == <<SlotUnknown>> \o [i \in 1..n |-> saved[i].val]

\* Value.Call after the parameters were handed to saveToSlot: a panic of
\* saveToSlot leaves Call before the VM is invoked.
CallInvoke(signature, saved, junk) ==
    LET bad   == {i \in DOMAIN saved : saved[i].panic # ""}
        first == CHOOSE i \in bad : \A j \in bad : i <= j
    IN  IF bad # {}
        THEN [pre    |-> CallSlots(saved, first - 1),
              post   |-> CallSlots(saved, first - 1),
              result |-> "",
              err    |-> "",
              panic  |-> saved[first].panic,
              ret    |-> GoInvalid]
        ELSE CallReturn(CallSlots(saved, Len(saved)),
                        wrenCall(signature, CallSlots(saved, Len(saved)), junk))

\* func (v *Value) Call(signature, params...) (interface{}, error).
Call(signature, params, junk) ==
    CallInvoke(signature, [i \in DOMAIN params |-> saveToSlot(params[i])], junk)

\* Interpret of the program above.
InterpretWrenMath(vm) ==
    /\ ~Fatal
    /\ vm \in DOMAIN vmMap
    /\ last' = [Interpret(vm, "WREN_RESULT_SUCCESS", "") EXCEPT !.script = "WrenMath"]
    /\ UNCHANGED <<counter, fMap, vmMap, bound, heap, regLog, others>>

\* vm.Variable("WrenMath"), called as in TestCallWren once the program that
\* defines the class has been interpreted: a Value with an empty methods map.
Variable(vm, name) ==
    /\ ~Fatal
    /\ vm \in DOMAIN vmMap
    /\ last.op = "Interpret" /\ last.vm = vm /\ last.script = name /\ last.err = ""
    /\ value' = [vm |-> vm, methods |-> {}]
    /\ last' = [Event("Variable", vm) EXCEPT !.name = name]
    /\ UNCHANGED <<counter, fMap, vmMap, bound, heap, fMapGuard, goroutines, regLog>>

\* The event of a Value.Call with outcome r.
CallEvent(vm, signature, params, junk, r) ==
    [Event("Call", vm) EXCEPT
       !.name = signature, !.args = params, !.junk = junk,
       !.pre = r.pre, !.post = r.post, !.result = r.result,
       !.err = r.err, !.panic = r.panic, !.returned = (r.panic = ""), !.ret = r.ret]

\* value.Call(signature, params...): the call handle is made and cached on
\* first use, then the call runs.
ValueCall(signature, params, junk) ==
    /\ ~Fatal
    /\ value.vm # 0
    /\ value' = [value EXCEPT !.methods = @ \cup {signature}]
    /\ last' = CallEvent(value.vm, signature, params, junk, Call(signature, params, junk))
    /\ UNCHANGED <<counter, fMap, vmMap, bound, heap, fMapGuard, goroutines, regLog>>

NextCall ==
    \/ NewVM
    \/ \E vm \in VMs : InterpretWrenMath(vm)
    \/ \E vm \in VMs : Variable(vm, "WrenMath")
    \/ \E signature \in CallSignatures :
          \E params \in CallParamListsOf(signature), junk \in JunkValues :
             ValueCall(signature, params, junk)

SpecCall == Init /\ [][NextCall]_vars

(***************************************************************************)
(* Properties.                                                             *)
(***************************************************************************)
IsRegistration(e) == e.op \in {"RegisterForeignMethod", "RegisterForeignClass"}
IsCall(e)      == e.op = "Interpret" /\ e.script = "call"
IsConstruct(e) == e.op = "Interpret" /\ e.script = "construct"
IsBindMethod(e) == e.op = "Interpret" /\ e.script = "bindMethod"
IsBindClass(e)  == e.op = "Interpret" /\ e.script = "bindClass"

\* C1: with a pool of MAX_REGISTRATIONS entry points, the first
\* MAX_REGISTRATIONS registrations succeed and the next one is the first to
\* return the capacity error: a registration fails exactly when
\* MAX_REGISTRATIONS registrations have succeeded before it.
C1_FirstFailureAfterN ==
    IsRegistration(last) =>
        IF last.err # "" THEN Len(regLog) = MAX_REGISTRATIONS
        ELSE Len(regLog) <= MAX_REGISTRATIONS

\* C2: a call of the registered two-parameter function add whose receiver is
\* the class (slot 0 unknown) and whose arguments are the integers a and b
\* invokes add exactly once with (a, b) in that order and leaves the number
\* a + b in slot 0; Interpret returns without error.
C2_AddDispatch ==
    (/\ IsCall(last) /\ last.f = "add"
     /\ Len(last.pre) = 3
     /\ last.pre[1].tag = "unknown"
     /\ \A i \in {2, 3} : last.pre[i].tag = "num" /\ last.pre[i].n % 2 = 0)
    => LET a == last.pre[2].n \div 2
           b == last.pre[3].n \div 2
       IN  /\ last.invoked = <<[f |-> "add", args |-> <<GoInt(a), GoInt(b)>>]>>
           /\ last.post = <<SlotNum(2 * (a + b)), last.pre[2], last.pre[3]>>
           /\ last.returned /\ last.err = "" /\ last.panic = ""

\* add(2, 3) was dispatched and left 5 in slot 0.
C2_Witness ==
    /\ IsCall(last) /\ last.f = "add"
    /\ last.pre = <<SlotUnknown, SlotNum(4), SlotNum(6)>>
    /\ last.post[1] = SlotNum(10)

\* C3: constructing a foreign class runs the registered constructor once and
\* puts in slot 0 a new object of VM storage holding the value the
\* constructor returned; every object of VM storage holds that value from
\* then on; a foreign method called on such an object gets a pointer to it
\* as its first parameter and reads the constructor's fields (getMessage on
\* God{msg: "Do my bidding, %s!"} with "Damien" gives "Do my bidding,
\* Damien!").
C3_ForeignObjectRoundTrip ==
    /\ \A vm \in VMs : \A a \in 1..Len(heap[vm]) :
          heap[vm][a] = [typ |-> "God", msg |-> <<"Do my bidding, ", "%s", "!">>]
    /\ IsConstruct(last) =>
          /\ last.invoked = <<[f |-> "NewGod", args |-> <<>>]>>
          /\ last.post = <<SlotForeign(Len(heap[last.vm]))>>
          /\ Len(heap[last.vm]) >= 1
          /\ last.returned /\ last.err = ""
    /\ (/\ IsCall(last) /\ last.f = "getMessage"
        /\ last.pre[1].tag = "foreign" /\ last.pre[2].tag = "string")
       => /\ last.invoked = <<[f |-> "getMessage",
                               args |-> <<GoPtrGod(last.pre[1].n), GoString(last.pre[2].s)>>]>>
          /\ last.post[1] = SlotString("Do my bidding, " \o last.pre[2].s \o "!")
          /\ last.returned /\ last.err = ""

\* getMessage("Damien") on a constructed God answered "Do my bidding, Damien!".
C3_Witness ==
    /\ IsCall(last) /\ last.f = "getMessage"
    /\ last.pre[1] = SlotForeign(1)
    /\ last.post[1] = SlotString("Do my bidding, Damien!")

\* A dispatch failed: handleFunction returned an error, a panic left the
\* entry point, or the host function was not invoked.
DispatchFailed(e) == e.hfErr # "" \/ e.panic # "" \/ e.invoked = <<>>

\* C4, as claimed: a failure while dispatching a foreign method reaches the
\* caller of Interpret as a returned error: Interpret returns, with a non-nil
\* error.
C4_FailureReturnedByInterpret ==
    (IsCall(last) /\ DispatchFailed(last)) => (last.returned /\ last.err # "")

\* C4, amended: a failure while dispatching a foreign method is caught by
\* handleFunction, which returns it as an error instead of panicking; the
\* registered closure raises that error again as a panic, which unwinds out
\* of Interpret: Interpret does not return, and no error value is returned.
C4_FailureCaughtThenRaised ==
    (IsCall(last) /\ DispatchFailed(last)) =>
        /\ last.hfErr # ""
        /\ last.panic = last.hfErr
        /\ ~last.returned /\ last.err = ""
        /\ (last.f = "boom" => last.hfErr = "boom")

\* A host function failed in its body and the failure left Interpret as a panic.
C4_Witness ==
    /\ IsCall(last) /\ last.f = "boom"
    /\ last.invoked = <<[f |-> "boom", args |-> <<>>]>>
    /\ last.hfErr = "boom" /\ ~last.returned

\* C5: a call of add, whose parameters are declared int, with a string in an
\* argument slot fails: add is not invoked, nothing is written to the slots,
\* and handleFunction reports an error.
C5_StringArgumentNeverCoerced ==
    (/\ IsCall(last) /\ last.f = "add"
     /\ \E i \in 2..Len(last.pre) : last.pre[i].tag = "string")
    => /\ last.invoked = <<>>
       /\ last.post = last.pre
       /\ last.hfErr # ""

\* add was called with a string in both argument slots.
C5_Witness ==
    /\ IsCall(last) /\ last.f = "add"
    /\ last.pre[2].tag = "string" /\ last.pre[3].tag = "string"
    /\ last.post = last.pre

\* C6: interpreting a script that calls add with two strings panics: Interpret
\* does not return, and its caller can recover the panic.
C6_InvalidParametersPanic ==
    (/\ IsCall(last) /\ last.f = "add"
     /\ last.pre[2].tag = "string" /\ last.pre[3].tag = "string")
    => /\ ~last.returned
       /\ last.panic = "reflect: Call using string as type int"

\* add("Damien", "Damien") made Interpret panic.
C6_Witness ==
    /\ IsCall(last) /\ last.name = "static GoMath.add(_,_)"
    /\ last.pre = <<SlotUnknown, SlotString("Damien"), SlotString("Damien")>>
    /\ last.panic # ""

\* C7: a binding request of a module other than "main" is never satisfied:
\* for a method the resolver answers null, for a class it panics, whatever is
\* registered on the VM.
C7_NonMainNeverBound ==
    /\ (IsBindMethod(last) /\ last.module # "main") =>
          /\ last.ptr = NULL
          /\ last.returned /\ last.err = "runtime error"
    /\ (IsBindClass(last) /\ last.module # "main") =>
          /\ last.ptr = NULL
          /\ ~last.returned
          /\ last.panic = "tried to bind foreign class from non-main module"

\* A method registered on the VM was asked for by another module and refused.
C7_Witness ==
    /\ IsBindMethod(last) /\ last.module = "hello"
    /\ \E i \in 1..Len(regLog) :
          regLog[i].vm = last.vm /\ regLog[i].kind = "method" /\ regLog[i].name = last.name
    /\ last.ptr = NULL

\* The registrations of kind k made on vm under name, as positions of regLog.
RegisteredAt(vm, k, name) ==
    {i \in 1..Len(regLog) : regLog[i].vm = vm /\ regLog[i].kind = k /\ regLog[i].name = name}

\* C8: resolving a key never registered on the requesting VM yields no entry
\* point: for a method the answer is null and Interpret returns an error, for
\* a class the resolver panics.
C8_UnregisteredNeverResolved ==
    /\ (IsBindMethod(last) /\ RegisteredAt(last.vm, "method", last.name) = {}) =>
          /\ last.ptr = NULL
          /\ last.returned /\ last.err # "" /\ last.panic = ""
    /\ (IsBindClass(last) /\ RegisteredAt(last.vm, "class", last.name) = {}) =>
          /\ last.ptr = NULL
          /\ ~last.returned /\ last.panic # ""

\* Module main asked for a method registered on another VM only.
C8_Witness ==
    /\ IsBindMethod(last) /\ last.module = "main"
    /\ RegisteredAt(last.vm, "method", last.name) = {}
    /\ \E v \in VMs : RegisteredAt(v, "method", last.name) # {}
    /\ last.ptr = NULL /\ last.err = "runtime error"

\* C9: for a request of module main with (class, is-static, signature) the
\* resolver answers the pointer of the latest successful RegisterForeignMethod
\* on the requesting VM under the key "static " + class + "." + signature
\* (is-static) or class + "." + signature (otherwise), and null when there is
\* none; registrations of another VM or of the other static-ness do not count.
C9_ResolvesExactKey ==
    (IsBindMethod(last) /\ last.module = "main") =>
        LET key  == (IF last.decl[2] THEN "static " ELSE "") \o last.decl[1] \o "." \o last.decl[3]
            regs == RegisteredAt(last.vm, "method", key)
        IN  /\ regs = {} => last.ptr = NULL
            /\ regs # {} =>
                  /\ last.ptr = regLog[CHOOSE i \in regs : \A j \in regs : j <= i].ptr
                  /\ last.ptr # NULL
                  /\ last.returned /\ last.err = ""

\* A static and an instance method of the same class and signature are
\* registered on the VM, and the request for the static one got its pointer.
C9_Witness ==
    /\ IsBindMethod(last) /\ last.module = "main"
    /\ last.decl = <<"GoMath", TRUE, "add(_,_)">>
    /\ RegisteredAt(last.vm, "method", "GoMath.add(_,_)") # {}
    /\ \E i \in RegisteredAt(last.vm, "method", "static GoMath.add(_,_)") :
          last.ptr = regLog[i].ptr

\* The registrations got strictly increasing entry points of the pool.
IndicesIncrease ==
    /\ \A i \in 1..Len(regLog) : regLog[i].ptr \in {get_f(k) : k \in 0..(MAX_REGISTRATIONS - 1)}
    /\ \A i, j \in 1..Len(regLog) : i < j => regLog[i].ptr < regLog[j].ptr

\* C10: whatever is registered on whichever VM, the counter never decreases,
\* every successful registration gets an index greater than all handed out
\* before (no two share one), and every index is in 0..MAX_REGISTRATIONS-1.
C10_IndexMonotonic ==
    [][counter' >= counter /\ IndicesIncrease']_vars

\* Two registrations on different VMs have succeeded.
C10_Witness ==
    /\ Len(regLog) = 2
    /\ regLog[1].vm # regLog[2].vm
    /\ counter = 2

\* C12: a RegisterForeignMethod under a key the VM's record already holds
\* succeeds and replaces the entry: its store keeps the keys of the record,
\* the key now holds the pointer just handed out, which differs from the
\* earlier one and is what bindMethod answers for that key; the index of the
\* earlier registration is not given out again, and no step of whichever
\* registration changes a closure that is installed, so its entry point
\* keeps its closure.
C12_ReRegistrationOverwrites ==
    [][/\ \A i \in DOMAIN fMap : i \in DOMAIN fMap' /\ fMap'[i] = fMap[i]
       /\ (/\ last'.op = "RegisterForeignMethod" /\ last'.err = ""
           /\ Len(regLog') = Len(regLog) + 1
           /\ last'.name \in DOMAIN vmMap[last'.vm].methods)
          => LET vm  == last'.vm
                 old == vmMap[vm].methods[last'.name]
             IN  /\ DOMAIN vmMap'[vm].methods = DOMAIN vmMap[vm].methods
                 /\ vmMap'[vm].methods[last'.name] = last'.ptr
                 /\ last'.ptr # old /\ last'.ptr # NULL
                 /\ \A d \in Decls :
                       FullName(d.className, d.isStatic, d.signature) = last'.name =>
                          bindMethod(vmMap'[vm], "main", d.className, d.isStatic, d.signature)
                             = last'.ptr
                 /\ {FnIndex(old), FnIndex(last'.ptr)} \subseteq DOMAIN fMap'
                 /\ fMap'[FnIndex(last'.ptr)] = MethodClosure(vm, last'.f)
                 /\ FnIndex(old) < FnIndex(last'.ptr)
                 /\ FnIndex(last'.ptr) < counter']_vars

\* The same key was registered twice on one VM, and the record holds the
\* pointer of the second registration while both closures are installed.
C12_Witness ==
    /\ Len(regLog) = 2
    /\ regLog[1].vm = regLog[2].vm /\ regLog[1].kind = "method"
    /\ regLog[2].kind = "method" /\ regLog[1].name = regLog[2].name
    /\ vmMap[regLog[2].vm].methods[regLog[2].name] = regLog[2].ptr
    /\ regLog[1].ptr # regLog[2].ptr
    /\ {FnIndex(regLog[1].ptr), FnIndex(regLog[2].ptr)} \subseteq DOMAIN fMap

\* C19: a registration that returns the capacity error leaves the counter,
\* the installed closures and the records of all VMs as they were (the entry
\* under the name being registered included), and so what the VMs bound and
\* the foreign objects too: neither the step that enters Register... nor the
\* one in which registerFunc refuses and the error is returned changes any
\* of them, and an error a registration returns is the capacity error.
C19_FailedRegistrationChangesNothing ==
    [][/\ \A g \in Goroutines :
             (/\ goroutines[g].pc \in {"idle", "check"}
              /\ goroutines'[g].pc \in {"check", "idle"}
              /\ goroutines'[g].pc # goroutines[g].pc)
             => /\ counter' = counter /\ fMap' = fMap /\ vmMap' = vmMap
                /\ bound' = bound /\ heap' = heap /\ regLog' = regLog
                /\ goroutines[g].pc = "check" =>
                      /\ IsRegistration(last') /\ last'.vm = goroutines[g].vm
                      /\ last'.name = goroutines[g].name
                      /\ last'.err = ErrCapacity /\ last'.ptr = NULL
       /\ (IsRegistration(last') /\ last'.err # "") =>
             /\ last'.err = ErrCapacity /\ last'.ptr = NULL
             /\ last' # last =>
                   \E g \in Goroutines :
                      goroutines[g].pc = "check" /\ goroutines'[g].pc = "idle"]_vars

\* A method registration failed for a name the VM's record holds a pointer
\* for.
C19_Witness ==
    /\ last.op = "RegisterForeignMethod" /\ last.err = ErrCapacity
    /\ last.name \in DOMAIN vmMap[last.vm].methods
    /\ vmMap[last.vm].methods[last.name] # NULL

\* The declarations of vm bound under the key name.
BoundUnder(vm, name) ==
    {d \in DOMAIN bound[vm].methods :
        FullName(d.className, d.isStatic, d.signature) = name}

\* C15: binding happens once, when the declaration is interpreted.  A
\* declaration whose bind returned null stays unbound, and only a bind changes
\* what a VM has bound: a registration, before or after, changes the record
\* and leaves every bound pointer alone.  A bound pointer is one registered
\* on that VM under that key, and a call through the declaration invokes the
\* entry point bound, running the closure installed there at registration,
\* also when the record has since got another pointer for the key.
C15_BindingIsOneShot ==
    [][/\ (bound' # bound) => (IsBindMethod(last') \/ IsBindClass(last')) /\ last'.ptr # NULL
       /\ ((IsBindMethod(last') \/ IsBindClass(last')) /\ last'.ptr = NULL) => bound' = bound
       /\ \A vm \in VMs : \A d \in DOMAIN bound'[vm].methods :
             \E i \in 1..Len(regLog') :
                /\ regLog'[i].vm = vm /\ regLog'[i].kind = "method"
                /\ regLog'[i].name = FullName(d.className, d.isStatic, d.signature)
                /\ regLog'[i].ptr = bound'[vm].methods[d]
       /\ IsCall(last') =>
             /\ \E d \in BoundUnder(last'.vm, last'.name) :
                   last'.ptr = bound[last'.vm].methods[d]
             /\ \E i \in 1..Len(regLog) :
                   /\ regLog[i].ptr = last'.ptr /\ regLog[i].name = last'.name
                   /\ last'.f = fMap[FnIndex(regLog[i].ptr)].f
             /\ \A k \in 1..Len(last'.invoked) : last'.invoked[k].f = last'.f]_vars

\* A call ran the closure bound at declaration time although the record of
\* the VM holds a later pointer for the key.
C15_Witness ==
    /\ IsCall(last) /\ last.invoked # <<>>
    /\ last.name \in DOMAIN vmMap[last.vm].methods
    /\ vmMap[last.vm].methods[last.name] # last.ptr
    /\ last.ptr = regLog[1].ptr /\ Len(regLog) = 2

\* C16: entry point i runs the closure installed at index i and no other,
\* at most once, and the dispatch works on the VM that invoked the entry
\* point: on its slots, of which only slot 0 may change, and on its foreign
\* storage.  An entry point without a closure panics when invoked, on
\* whichever VM; it runs nothing.
C16_TrampolineRunsItsClosure ==
    /\ (IsCall(last) \/ IsConstruct(last)) =>
          LET i == FnIndex(last.ptr)
          IN  /\ i \in DOMAIN fMap
              /\ last.on = last.vm /\ fMap[i].vm = last.vm
              /\ last.f = fMap[i].f
              /\ Len(last.invoked) <= 1
              /\ \A k \in 1..Len(last.invoked) : last.invoked[k].f = fMap[i].f
              /\ Len(last.post) = Len(last.pre)
              /\ \A k \in 2..Len(last.pre) : last.post[k] = last.pre[k]
    /\ \A i \in 0..(MAX_REGISTRATIONS - 1) : \A vm \in DOMAIN vmMap :
          i \notin DOMAIN fMap =>
             LET r == Trampoline(i, fMap, vm, <<SlotUnknown>>, heap, SlotNull)
             IN  /\ r.panic = "function " \o ToString(i) \o " not registered"
                 /\ r.invoked = <<>> /\ r.slots = <<SlotUnknown>> /\ r.heap = heap[vm]

\* Closures of two VMs are installed, and a call on the second VM ran the
\* closure at the index bound there, on that VM.
C16_Witness ==
    /\ IsCall(last) /\ last.invoked # <<>>
    /\ last.vm = 2 /\ last.on = 2
    /\ FnIndex(last.ptr) = 1
    /\ fMap[0].vm = 1 /\ fMap[1].vm = 2

\* C11: in every interleaving of concurrent registrations each successful
\* registration gets an index of its own, no closure is installed at an
\* index >= MAX_REGISTRATIONS, and no registration succeeds with a null
\* entry point.
C11_RegistrationAtomic ==
    /\ \A i \in DOMAIN fMap : i < MAX_REGISTRATIONS
    /\ \A i \in 1..Len(regLog) : regLog[i].ptr # NULL
    /\ \A i, j \in 1..Len(regLog) : i # j => regLog[i].ptr # regLog[j].ptr
    /\ \A g, h \in Goroutines :
          (g # h /\ goroutines[g].pc \in {"unlock", "store"}
                 /\ goroutines[h].pc \in {"unlock", "store"})
          => goroutines[g].ptr # goroutines[h].ptr \/ goroutines[g].ptr = NULL

IsDispatch(e) == e.op = "handleFunction"

\* The shift the offset rule prescribes for event e: 1 when the function has
\* parameters and slot 0 is inaccessible, else 0.
RuleOffset(e) == IF Len(ParamTypes(e.f)) > 0 /\ e.pre[1].tag = "unknown" THEN 1 ELSE 0
\* The slot the rule assigns to parameter i (from 0) of event e.
RuleSlot(e, i) == SlotAt(e.pre, i + RuleOffset(e), e.junk)

\* C13: in a dispatch of a function with k parameters the offset is 1 when
\* slot 0 is inaccessible and 0 otherwise, and parameter i is decoded from
\* slot i + offset, with its declared type (a foreign receiver in slot 0 is
\* parameter 0).  The shift is made once: an inaccessible slot met at the
\* shifted slot 1, or at the slot of a later parameter, makes the dispatch
\* fail without invoking the function.
C13_OffsetRule ==
    IsDispatch(last) =>
        LET ins == ParamTypes(last.f)
            k   == Len(ins)
        IN  /\ last.offset = RuleOffset(last)
            /\ (\E i \in 0..(k - 1) : RuleSlot(last, i).tag = "unknown") =>
                   (last.invoked = <<>> /\ last.hfErr # "" /\ last.post = last.pre)
            /\ (last.invoked # <<>>) =>
                   /\ Len(last.invoked) = 1
                   /\ Len(last.invoked[1].args) = k
                   /\ \A i \in 0..(k - 1) :
                         last.invoked[1].args[i + 1] =
                            getFromSlot(RuleSlot(last, i), i + RuleOffset(last), ins[i + 1]).val
            /\ (k > 0 /\ last.pre[1].tag = "foreign" /\ last.invoked # <<>>) =>
                   last.invoked[1].args[1] = GoPtrGod(last.pre[1].n)

\* add met an inaccessible slot 0, shifted, met an inaccessible slot 1 and
\* failed there.
C13_Witness ==
    /\ IsDispatch(last) /\ last.f = "add"
    /\ Len(last.pre) = 3
    /\ last.pre[1].tag = "unknown" /\ last.pre[2].tag = "unknown"
    /\ last.offset = 1
    /\ last.hfErr = "received an inaccessible-from-C parameter in slot 1"
    /\ last.invoked = <<>>

\* The slot content that encodes a Go value of one of the kinds saveToSlot
\* knows.
Encodable(v) == v.t \in {"bool", "int", "float64", "string"}
Encoding(v) ==
    CASE v.t = "bool"    -> SlotBool(v.b)
      [] v.t = "int"     -> SlotNum(2 * v.n)
      [] v.t = "float64" -> SlotNum(v.n)
      [] v.t = "string"  -> SlotString(v.s)

\* Slot 0 of event e was written with the encoding of the Go value v.
WrittenWith(e, v) == Encodable(v) /\ e.post = [e.pre EXCEPT ![1] = Encoding(v)]

\* C14, as claimed: after the dispatcher invoked a host function that
\* returned, slot 0 is written exactly when the function has one result, and
\* then with the encoding of that result; with no result or with two results
\* all slots are as they were on entry and the dispatch reports no error.
C14_Slot0WrittenIffOneResult ==
    (IsDispatch(last) /\ last.invoked # <<>>) =>
        LET r == FuncBody(last.f, last.invoked[1].args, DispatchHeap)
        IN  (r.panic = "") =>
               /\ Len(r.rets) = NumOut(last.f)
               /\ (Len(r.rets) # 1) =>
                      (last.post = last.pre /\ last.hfErr = "" /\ last.panic = "")
               /\ (Len(r.rets) = 1) => WrittenWith(last, r.rets[1])

\* C14, amended: after the dispatcher invoked a host function that returned,
\* slot 0 is written exactly when the function has one result of a kind
\* saveToSlot encodes (bool, integer, float, string), and then with the
\* encoding of that result, no other slot changes and no error is reported;
\* with one result of another kind all slots are as they were on entry and
\* the dispatch returns the error of saveToSlot; with no result or with two
\* results all slots are as they were on entry and no error is reported.
C14_Slot0WrittenIffOneEncodableResult ==
    (IsDispatch(last) /\ last.invoked # <<>>) =>
        LET r == FuncBody(last.f, last.invoked[1].args, DispatchHeap)
        IN  (r.panic = "") =>
               /\ Len(r.rets) = NumOut(last.f)
               /\ (Len(r.rets) # 1) =>
                      (last.post = last.pre /\ last.hfErr = "" /\ last.panic = "")
               /\ (Len(r.rets) = 1 /\ Encodable(r.rets[1])) =>
                      /\ WrittenWith(last, r.rets[1])
                      /\ last.hfErr = "" /\ last.panic = ""
               /\ (Len(r.rets) = 1 /\ ~Encodable(r.rets[1])) =>
                      /\ last.post = last.pre
                      /\ last.hfErr = "don't know how to save this to a slot: "
                      /\ last.panic = ""

\* self was invoked on the foreign object in slot 0 and returned it, a
\* pointer: slot 0 is as it was and the dispatch returned the error.
C14_Witness ==
    /\ IsDispatch(last) /\ last.f = "self"
    /\ last.invoked = <<[f |-> "self", args |-> <<GoPtrGod(1)>>]>>
    /\ last.pre[1] = SlotForeign(1)
    /\ last.post = last.pre
    /\ last.hfErr = "don't know how to save this to a slot: "

\* swap(2, 2) was invoked, returned two values, and the slots are untouched.
C14_WitnessTwoResults ==
    /\ IsDispatch(last) /\ last.f = "swap"
    /\ last.invoked = <<[f |-> "swap", args |-> <<GoInt(2), GoInt(2)>>]>>
    /\ last.post = last.pre /\ last.pre[1] = SlotUnknown
    /\ last.hfErr = ""

\* add(2, 2) was invoked with an inaccessible slot 0, and slot 0 holds 4.
C14_WitnessOneResult ==
    /\ IsDispatch(last) /\ last.f = "add"
    /\ last.invoked = <<[f |-> "add", args |-> <<GoInt(2), GoInt(2)>>]>>
    /\ last.pre[1] = SlotUnknown /\ last.post[1] = SlotNum(8)
    /\ last.hfErr = ""

\* The slot tag that decodes to a value of Go type t.
TagFor(t) ==
    CASE t = "int"    -> "num"
      [] t = "*God"   -> "foreign"
      [] t = "string" -> "string"

\* C17, as claimed: a dispatch in which a parameter's slot is null, and every
\* other parameter's slot holds a value of the declared type, invokes the
\* host function, with the no-value in the place of the null.
C17_NullArgumentPassed ==
    (/\ IsDispatch(last)
     /\ \E i \in 0..(Len(ParamTypes(last.f)) - 1) : RuleSlot(last, i).tag = "null"
     /\ \A i \in 0..(Len(ParamTypes(last.f)) - 1) :
           RuleSlot(last, i).tag \in {"null", TagFor(ParamTypes(last.f)[i + 1])})
    => /\ Len(last.invoked) = 1
       /\ \A i \in 0..(Len(ParamTypes(last.f)) - 1) :
             RuleSlot(last, i).tag = "null" => last.invoked[1].args[i + 1] = GoInvalid

IsValueCall(e) == e.op = "Call"

====
